---- MODULE Spec2Model ----
(***************************************************************************)
(* Model of nvenc_availability.py: find_command, NvidiaGPU.parse,          *)
(* NvidiaGPU.has_nvenc_h264 and number_of_nvenc_gpus.                      *)
(*                                                                         *)
(* Text is a sequence of tokens.  The token "\n" is a line break and " "   *)
(* is a run of whitespace; every other token is a run of characters that   *)
(* the code's patterns treat as a unit (a digit run, a word of a GPU name, *)
(* a literal piece of a pattern).  A Python str is such a sequence, a list *)
(* of str a sequence of them.  None is encoded by a value no conversion    *)
(* of the code can produce: None for a str, NoneInt for an int.            *)
(***************************************************************************)
EXTENDS Integers, Sequences, FiniteSets, TLC

VARIABLES
    pc,          \* position of the call
    NVENC,       \* the imported dataset: NONE, AMBIG, COMPAT, NVENC_CORES_H264
    calls,       \* every subprocess run so far: its argv and exit code, in order
    proc,        \* the last CompletedProcess
    nvidia_smi,  \* number_of_nvenc_gpus: result of find_command
    version,     \* number_of_nvenc_gpus: matched.group(1)
    major,
    minor,
    GPUs,        \* number_of_nvenc_gpus: the parsed records
    result,      \* value returned by number_of_nvenc_gpus
    exception,   \* exception that left number_of_nvenc_gpus, "" if none
    self,        \* the record has_nvenc_h264 is applied to (resolver runs)
    outcome      \* what has_nvenc_h264 did for self (resolver runs)

vars == <<pc, NVENC, calls, proc, nvidia_smi, version, major, minor, GPUs,
          result, exception, self, outcome>>

-----------------------------------------------------------------------------
(* Bounds of the enumerated inputs *)

MaxOut == 3
MaxLines == 2
MaxTags == 2

-----------------------------------------------------------------------------
(* Encodings *)

None == <<"None">>
NoneInt == -1
NL == "\n"
SP == " "

Texts(alphabet, n) == UNION {[1..k -> alphabet] : k \in 0..n}

RECURSIVE Join(_)
Join(lines) ==
    IF Len(lines) = 0 THEN <<>>
    ELSE IF Len(lines) = 1 THEN lines[1]
    ELSE lines[1] \o <<NL>> \o Join(Tail(lines))

-----------------------------------------------------------------------------
(* str.split, str.strip, int *)

RECURSIVE Split(_, _)
Split(text, sep) ==
    IF \A i \in 1..Len(text) : text[i] # sep THEN <<text>>
    ELSE LET k == CHOOSE i \in 1..Len(text) :
                     text[i] = sep /\ \A j \in 1..(i - 1) : text[j] # sep
         IN  <<SubSeq(text, 1, k - 1)>> \o Split(SubSeq(text, k + 1, Len(text)), sep)

IsSpace(t) == t \in {SP, NL}

Strip(text) ==
    IF \A i \in 1..Len(text) : IsSpace(text[i]) THEN <<>>
    ELSE LET lo == CHOOSE i \in 1..Len(text) :
                      ~IsSpace(text[i]) /\ \A j \in 1..(i - 1) : IsSpace(text[j])
             hi == CHOOSE i \in 1..Len(text) :
                      ~IsSpace(text[i]) /\ \A j \in (i + 1)..Len(text) : IsSpace(text[j])
         IN  SubSeq(text, lo, hi)

DigitValue ==
    ("0" :> 0) @@ ("1" :> 1) @@ ("00" :> 0) @@ ("02" :> 2) @@ ("10" :> 10) @@
    ("80" :> 80) @@ ("440" :> 440) @@ ("450" :> 450)

IsDigits(t) == t \in DOMAIN DigitValue

ToInt(text) == DigitValue[text[1]]

-----------------------------------------------------------------------------
(* find_command *)

StripAll(items) == [i \in 1..Len(items) |-> Strip(items[i])]

find_command(p) ==
    IF p.returncode # 0 THEN None
    ELSE LET commands == StripAll(Split(p.stdout, NL))
         IN  IF Len(commands) = 0 THEN None ELSE commands[1]

-----------------------------------------------------------------------------
(* NvidiaGPU *)

THREADS_PER_CORE == 3

\* Tokens made only of the characters [a-zA-Z0-9-].
WordTokens ==
    {"GPU", "GeForce", "GTX", "MX150", "Quadro", "K420", "Tesla", "K80", "NVS",
     "GPU-1234abcd"} \cup DOMAIN DigitValue

\* NAME_PATTERN's classes: the name admits blanks, the uuid does not.
IsNameToken(t) == t \in WordTokens \cup {SP}
IsUuidToken(t) == t \in WordTokens

\* Positions where the " (UUID: " clause of NAME_PATTERN can start.
UuidClause(line) ==
    {k \in 5..(Len(line) - 2) :
        /\ line[k] = "(UUID:"
        /\ \A j \in 4..(k - 1) : IsNameToken(line[j])
        /\ IsUuidToken(line[k + 1])
        /\ line[k + 2] = ")"}

\* NAME_PATTERN.match: anchored at the start, free at the end.
NameMatches(line) ==
    /\ Len(line) >= 7
    /\ line[1] = "GPU"
    /\ IsDigits(line[2])
    /\ line[3] = ":"
    /\ UuidClause(line) # {}

NvidiaGPU(index, name, uuid) == [index |-> index, name |-> name, uuid |-> uuid]

UnknownName == <<"<unknown>">>

parse(line) ==
    LET stripped == Strip(line)
    IN  IF ~NameMatches(stripped) THEN NvidiaGPU(-1, UnknownName, "0")
        ELSE LET k == CHOOSE i \in UuidClause(stripped) : TRUE
             IN  NvidiaGPU(ToInt(<<stripped[2]>>), SubSeq(stripped, 4, k - 1),
                           stripped[k + 1])

\* `brand in self.name`: a name is its sequence of words, and a brand is one
\* word, so the brand is a substring when it is one of the words.
Contains(name, brand) == \E i \in 1..Len(name) : name[i] = brand

Get(dict, key, default) == IF key \in DOMAIN dict THEN dict[key] ELSE default

Min(s) == CHOOSE x \in {s[i] : i \in 1..Len(s)} : \A i \in 1..Len(s) : x <= s[i]
Max(s) == CHOOSE x \in {s[i] : i \in 1..Len(s)} : \A i \in 1..Len(s) : x >= s[i]

\* What a call of has_nvenc_h264 does: the branch taken, the value returned
\* (raised = TRUE when min() of an empty list raises ValueError instead) and
\* the core counts it logs.
Returns(rule, value) ==
    [raised |-> FALSE, rule |-> rule, value |-> value,
     min_cores |-> NoneInt, max_cores |-> NoneInt, upto |-> NoneInt,
     warn_zero |-> FALSE]

n_cores(gpu) ==
    LET tags == NVENC.COMPAT[gpu.name]
    IN  [i \in 1..Len(tags) |-> Get(NVENC.NVENC_CORES_H264, tags[i], 0)]

\* Variant of the COMPAT rule that answers from min_cores.
compat_rule_min(gpu) ==
    LET n == n_cores(gpu)
    IN  IF Len(n) = 0
        THEN [raised |-> TRUE, rule |-> "compat", value |-> FALSE,
              min_cores |-> NoneInt, max_cores |-> NoneInt, upto |-> NoneInt,
              warn_zero |-> FALSE]
        ELSE [raised |-> FALSE, rule |-> "compat", value |-> Min(n) > 0,
              min_cores |-> Min(n), max_cores |-> Max(n),
              upto |-> Max(n) * THREADS_PER_CORE,
              warn_zero |-> (Min(n) = 0)]

compat_rule(gpu) ==
    LET n == n_cores(gpu)
    IN  IF Len(n) = 0
        THEN [raised |-> TRUE, rule |-> "compat", value |-> FALSE,
              min_cores |-> NoneInt, max_cores |-> NoneInt, upto |-> NoneInt,
              warn_zero |-> FALSE]
        ELSE [raised |-> FALSE, rule |-> "compat", value |-> Max(n) > 0,
              min_cores |-> Min(n), max_cores |-> Max(n),
              upto |-> Max(n) * THREADS_PER_CORE,
              warn_zero |-> (Min(n) = 0)]

\* Variants of has_nvenc_h264 with two of its rules in the other order.
has_nvenc_h264_none_first(gpu) ==
    IF gpu.name \in NVENC.NONE THEN Returns("none", FALSE)
    ELSE IF Contains(gpu.name, "Quadro") \/ Contains(gpu.name, "NVS")
          \/ Contains(gpu.name, "Tesla")
    THEN Returns("brand", TRUE)
    ELSE IF gpu.name \in NVENC.AMBIG THEN Returns("ambig", TRUE)
    ELSE IF gpu.name \notin DOMAIN NVENC.COMPAT THEN Returns("unregistered", FALSE)
    ELSE compat_rule(gpu)

has_nvenc_h264_ambig_first(gpu) ==
    IF Contains(gpu.name, "Quadro") \/ Contains(gpu.name, "NVS")
          \/ Contains(gpu.name, "Tesla")
    THEN Returns("brand", TRUE)
    ELSE IF gpu.name \in NVENC.AMBIG THEN Returns("ambig", TRUE)
    ELSE IF gpu.name \in NVENC.NONE THEN Returns("none", FALSE)
    ELSE IF gpu.name \notin DOMAIN NVENC.COMPAT THEN Returns("unregistered", FALSE)
    ELSE compat_rule(gpu)

has_nvenc_h264_compat_first(gpu) ==
    IF Contains(gpu.name, "Quadro") \/ Contains(gpu.name, "NVS")
          \/ Contains(gpu.name, "Tesla")
    THEN Returns("brand", TRUE)
    ELSE IF gpu.name \in NVENC.NONE THEN Returns("none", FALSE)
    ELSE IF gpu.name \in DOMAIN NVENC.COMPAT THEN compat_rule(gpu)
    ELSE IF gpu.name \in NVENC.AMBIG THEN Returns("ambig", TRUE)
    ELSE Returns("unregistered", FALSE)

has_nvenc_h264(gpu) ==
    IF Contains(gpu.name, "Quadro") \/ Contains(gpu.name, "NVS")
          \/ Contains(gpu.name, "Tesla")
    THEN Returns("brand", TRUE)
    ELSE IF gpu.name \in NVENC.NONE THEN Returns("none", FALSE)
    ELSE IF gpu.name \in NVENC.AMBIG THEN Returns("ambig", TRUE)
    ELSE IF gpu.name \notin DOMAIN NVENC.COMPAT THEN Returns("unregistered", FALSE)
    ELSE compat_rule(gpu)

-----------------------------------------------------------------------------
(* number_of_nvenc_gpus: the driver version *)

DV == "Driver Version: "

\* pattern.search(line): the leftmost place where the pattern matches.
VersionAt(line) ==
    {i \in 1..(Len(line) - 1) : line[i] = DV /\ IsDigits(line[i + 1])}

\* matched.group(1): a digit run, and ".digits" when it follows.
Group1(line) ==
    LET i == CHOOSE k \in VersionAt(line) : \A j \in VersionAt(line) : k <= j
    IN  IF i + 3 <= Len(line) /\ line[i + 2] = "." /\ IsDigits(line[i + 3])
        THEN SubSeq(line, i + 1, i + 3)
        ELSE SubSeq(line, i + 1, i + 1)

NonBlank(s) == Len(s) > 0

\* [line.strip() for line in stdout.split("\n") if len(line.strip()) > 0]
StrippedLines(stdout) == SelectSeq(StripAll(Split(stdout, NL)), NonBlank)

\* The for loop: the version of the first line that matches, else None.
FindVersion(out) ==
    IF \A i \in 1..Len(out) : VersionAt(out[i]) = {} THEN None
    ELSE LET k == CHOOSE i \in 1..Len(out) :
                     VersionAt(out[i]) # {} /\ \A j \in 1..(i - 1) : VersionAt(out[j]) = {}
         IN  Group1(out[k])

\* [int(digits) for digits in version.split(".")]
VersionInts(v) ==
    LET parts == Split(v, ".") IN [i \in 1..Len(parts) |-> ToInt(parts[i])]

MIN_MAJOR == 450

\* Variant of the gate that also refuses the first supported major.
TooOld_inclusive(m) == m <= MIN_MAJOR

\* `major < 450`
TooOld(m) == m < MIN_MAJOR

-----------------------------------------------------------------------------
(* number_of_nvenc_gpus: the listing *)

\* [NvidiaGPU.parse(item.strip()) for item in ... if len(item.strip()) > 0]
\* Variant of the listing that skips the lines NAME_PATTERN rejects.
ParseAll_drop_unmatched(stdout) ==
    LET items == SelectSeq(StrippedLines(stdout), NameMatches)
    IN  [i \in 1..Len(items) |-> parse(items[i])]

ParseAll(stdout) ==
    LET items == StrippedLines(stdout) IN [i \in 1..Len(items) |-> parse(items[i])]

\* Variant of the count that takes every record as capable.
CountCapable_all(gpus) == Len(gpus)

RECURSIVE CountCapable(_)
CountCapable(gpus) ==
    IF Len(gpus) = 0 THEN 0
    ELSE (IF has_nvenc_h264(gpus[1]).value THEN 1 ELSE 0) + CountCapable(Tail(gpus))

AnyRaises(gpus) == \E i \in 1..Len(gpus) : has_nvenc_h264(gpus[i]).raised

-----------------------------------------------------------------------------
(* The dataset module nvenc_dataset *)

GeForceGTX == <<"GeForce", "GTX">>
QuadroK420 == <<"Quadro", "K420">>
GeForceMX == <<"GeForce", "MX150">>
TeslaK80 == <<"Tesla", "K80">>
NVS310 == <<"NVS", "1">>

CoreTable == ("Kepler" :> 1) @@ ("Pascal" :> 2)
Tags == {"Kepler", "Pascal", "Unlisted"}
TagSeqs == UNION {[1..k -> Tags] : k \in 0..MaxTags}

Dataset(none, ambig, compat) ==
    [NONE |-> none, AMBIG |-> ambig, COMPAT |-> compat,
     NVENC_CORES_H264 |-> CoreTable]

\* Every dataset over two model names, one of them of a professional brand:
\* the key sets are free to overlap and a tag sequence may be empty.
KeyNames == {GeForceGTX, QuadroK420}
Datasets ==
    {Dataset(none, ambig, compat) :
        none \in SUBSET KeyNames, ambig \in SUBSET KeyNames,
        compat \in UNION {[keys -> TagSeqs] : keys \in SUBSET KeyNames}}

\* The datasets of the whole-call runs.
FlowDatasets ==
    {Dataset({GeForceMX}, {}, (GeForceGTX :> <<"Kepler">>)),
     Dataset({}, {GeForceMX},
             (GeForceGTX :> <<"Kepler", "Unlisted">>) @@ (QuadroK420 :> <<"Pascal">>)),
     Dataset({QuadroK420}, {GeForceGTX, QuadroK420}, (GeForceMX :> <<"Unlisted">>)),
     Dataset({}, {}, (GeForceGTX :> <<>>)),
     Dataset({}, {}, <<>>)}

-----------------------------------------------------------------------------
(* What the external processes can print *)

ExitCodes == {0, 1}

Lines(kinds, n) == {Join(ls) : ls \in UNION {[1..k -> kinds] : k \in 0..n}}

LocatorOutputs == Texts({"nvidia-smi.exe", SP, NL}, MaxOut)

DriverLine(v) == <<DV>> \o v
BannerLine(v) == <<"NVIDIA-SMI">> \o v \o DriverLine(v) \o <<"CUDA Version: ">>

V440_10 == <<"440", ".", "10">>
V450_00 == <<"450", ".", "00">>
V450_80_02 == <<"450", ".", "80", ".", "02">>

SmiOutputs ==
    {<<>>,
     <<"NVIDIA-SMI">>,
     DriverLine(<<>>),
     DriverLine(<<"450">>),
     DriverLine(<<"440">>),
     DriverLine(V450_00),
     Join(<<<<"NVIDIA-SMI">>, DriverLine(V440_10)>>),
     Join(<<<<SP>>, BannerLine(V450_80_02), <<"NVIDIA-SMI">>>>),
     Join(<<DriverLine(V440_10), DriverLine(V450_00)>>),
     Join(<<DriverLine(V450_00), DriverLine(V440_10)>>)}

GpuLine(index, name, uuid) == <<"GPU", index, ":">> \o name \o <<"(UUID:", uuid, ")">>

GpuLineKinds ==
    {<<SP>>,
     GpuLine("0", GeForceGTX, "GPU-1234abcd"),
     GpuLine("1", QuadroK420, "GPU-1234abcd"),
     <<SP>> \o GpuLine("0", GeForceMX, "GPU-1234abcd") \o <<SP>>,
     <<"GPU", "0", ":">> \o GeForceGTX,
     GpuLine("0", <<"GeForce", "(R)">>, "GPU-1234abcd")}

ListOutputs == Lines(GpuLineKinds, MaxLines)

\* A shell given a blank command line runs nothing and prints nothing.
CanPrint(command, text) == command = <<>> => text = <<>>

-----------------------------------------------------------------------------
(* number_of_nvenc_gpus *)

NoProc == [args |-> <<>>, returncode |-> 0, stdout |-> <<>>]
NoGPU == NvidiaGPU(-1, <<>>, "")
NoOutcome == Returns("", FALSE)

WhereArgs == <<<<"where">>, <<"nvidia-smi">>>>
SmiArgs(command) == <<command>>
ListArgs(command) == <<command, <<"-L">>>>

Completed(args, rc, text) == [args |-> args, returncode |-> rc, stdout |-> text]

Init ==
    /\ pc = "start"
    /\ NVENC \in FlowDatasets
    /\ calls = <<>>
    /\ proc = NoProc
    /\ nvidia_smi = None
    /\ version = None
    /\ major = NoneInt
    /\ minor = NoneInt
    /\ GPUs = <<>>
    /\ result = NoneInt
    /\ exception = ""
    /\ self = NoGPU
    /\ outcome = NoOutcome

Return(value) == pc' = "done" /\ result' = value /\ exception' = ""
Raise(exc) == pc' = "raised" /\ result' = NoneInt /\ exception' = exc
Goto(label) == pc' = label /\ result' = NoneInt /\ exception' = ""

\* Lines 93-95: find_command('nvidia-smi').
FindCommand ==
    /\ pc = "start"
    /\ \E rc \in ExitCodes, text \in LocatorOutputs :
          LET p == Completed(WhereArgs, rc, text)
              found == find_command(p)
          IN  /\ proc' = p
              /\ calls' = Append(calls, [args |-> p.args, returncode |-> rc])
              /\ nvidia_smi' = found
              /\ IF found = None THEN Return(0) ELSE Goto("smi")
    /\ UNCHANGED <<NVENC, version, major, minor, GPUs, self, outcome>>

\* Lines 98-117: run nvidia-smi, read the driver version, gate on it.
RunSmi ==
    /\ pc = "smi"
    /\ \E rc \in ExitCodes, text \in SmiOutputs :
          LET p == Completed(SmiArgs(nvidia_smi), rc, text)
              v == FindVersion(StrippedLines(text))
              ints == VersionInts(v)
          IN  /\ CanPrint(nvidia_smi, text)
              /\ proc' = p
              /\ calls' = Append(calls, [args |-> p.args, returncode |-> rc])
              /\ IF rc # 0
                 THEN Return(0) /\ UNCHANGED <<version, major, minor>>
                 ELSE /\ version' = v
                      /\ IF v = None
                         THEN Return(0) /\ UNCHANGED <<major, minor>>
                         ELSE IF Len(ints) # 2
                         THEN Raise("ValueError") /\ UNCHANGED <<major, minor>>
                         ELSE /\ major' = ints[1]
                              /\ minor' = ints[2]
                              /\ IF TooOld(ints[1]) THEN Return(0) ELSE Goto("list")
    /\ UNCHANGED <<NVENC, nvidia_smi, GPUs, self, outcome>>

\* Lines 120-133: run nvidia-smi -L, parse the records, count the capable.
RunSmiList ==
    /\ pc = "list"
    /\ \E rc \in ExitCodes, text \in ListOutputs :
          LET p == Completed(ListArgs(nvidia_smi), rc, text)
              parsed == ParseAll(text)
          IN  /\ CanPrint(nvidia_smi, text)
              /\ proc' = p
              /\ calls' = Append(calls, [args |-> p.args, returncode |-> rc])
              /\ IF rc # 0
                 THEN Return(0) /\ UNCHANGED GPUs
                 ELSE /\ GPUs' = parsed
                      /\ IF AnyRaises(parsed)
                         THEN Raise("ValueError")
                         ELSE Return(CountCapable(parsed))
    /\ UNCHANGED <<NVENC, nvidia_smi, version, major, minor, self, outcome>>

Next == FindCommand \/ RunSmi \/ RunSmiList

Spec == Init /\ [][Next]_vars

-----------------------------------------------------------------------------
(* has_nvenc_h264 on its own, over every dataset *)

ResolverNames == {GeForceGTX, QuadroK420, GeForceMX, TeslaK80, NVS310, UnknownName}

InitResolver ==
    /\ pc = "resolve"
    /\ NVENC \in Datasets
    /\ self \in {NvidiaGPU(0, name, "GPU-1234abcd") : name \in ResolverNames}
    /\ outcome = NoOutcome
    /\ calls = <<>>
    /\ proc = NoProc
    /\ nvidia_smi = None
    /\ version = None
    /\ major = NoneInt
    /\ minor = NoneInt
    /\ GPUs = <<>>
    /\ result = NoneInt
    /\ exception = ""

Resolve ==
    /\ pc = "resolve"
    /\ outcome' = has_nvenc_h264(self)
    /\ pc' = "resolved"
    /\ UNCHANGED <<NVENC, calls, proc, nvidia_smi, version, major, minor, GPUs,
                   result, exception, self>>

NextResolver == Resolve

SpecResolver == InitResolver /\ [][NextResolver]_vars

-----------------------------------------------------------------------------
(* Properties of has_nvenc_h264, checked under SpecResolver *)

Brands == {"Quadro", "NVS", "Tesla"}
HasBrand(name) == \E i \in 1..Len(name) : name[i] \in Brands

CoreCount(tag) ==
    IF tag \in DOMAIN NVENC.NVENC_CORES_H264 THEN NVENC.NVENC_CORES_H264[tag] ELSE 0
CoreCounts(name) ==
    {CoreCount(NVENC.COMPAT[name][i]) : i \in 1..Len(NVENC.COMPAT[name])}

ReachesCompat(name) ==
    /\ ~HasBrand(name)
    /\ name \notin NVENC.NONE
    /\ name \notin NVENC.AMBIG
    /\ name \in DOMAIN NVENC.COMPAT

Resolved == pc = "resolved"
ReturnedValue(value) == ~outcome.raised /\ outcome.value = value

\* C2, as stated: every name that is a key of NONE makes has_nvenc_h264
\* return false, whatever substrings the name contains.
C2_NoneIsFalse ==
    (Resolved /\ self.name \in NVENC.NONE) => ReturnedValue(FALSE)

\* C2, amended: every name that is a key of NONE and contains none of
\* "Quadro", "NVS", "Tesla" makes has_nvenc_h264 return false, whether or not
\* the name is also a key of AMBIG or COMPAT.
C2_NoneWithoutBrandIsFalse ==
    (Resolved /\ self.name \in NVENC.NONE /\ ~HasBrand(self.name))
        => ReturnedValue(FALSE)

C2_Witness ==
    /\ Resolved
    /\ ~HasBrand(self.name)
    /\ self.name \in NVENC.NONE
    /\ self.name \in NVENC.AMBIG
    /\ self.name \in DOMAIN NVENC.COMPAT
    /\ ReturnedValue(FALSE)
    /\ outcome.rule = "none"

\* C3: the rules apply in the order brand, NONE, AMBIG, not in COMPAT, COMPAT
\* core counts, and the first that matches decides the value returned, for
\* every name and every dataset, overlapping key sets included.  The call
\* returns no value only under the COMPAT rule with an empty tag sequence,
\* where min() raises (see C1).
C3_FirstMatchWins ==
    Resolved =>
        /\ outcome.raised
              => (ReachesCompat(self.name) /\ NVENC.COMPAT[self.name] = <<>>)
        /\ ~outcome.raised =>
              outcome.value =
                 (IF HasBrand(self.name) THEN TRUE
                  ELSE IF self.name \in NVENC.NONE THEN FALSE
                  ELSE IF self.name \in NVENC.AMBIG THEN TRUE
                  ELSE IF self.name \notin DOMAIN NVENC.COMPAT THEN FALSE
                  ELSE \E c \in CoreCounts(self.name) : c > 0)

C3_Witness ==
    /\ Resolved
    /\ HasBrand(self.name)
    /\ self.name \in NVENC.NONE
    /\ self.name \in NVENC.AMBIG
    /\ self.name \in DOMAIN NVENC.COMPAT
    /\ ReturnedValue(TRUE)
    /\ outcome.rule = "brand"

\* C4, as stated: every name that is a key of AMBIG makes has_nvenc_h264
\* return true, whether or not it is also a key of NONE or COMPAT.
C4_AmbigIsTrue ==
    (Resolved /\ self.name \in NVENC.AMBIG) => ReturnedValue(TRUE)

\* C4, amended: every name that is a key of AMBIG and is not a key of NONE, or
\* contains a brand substring, makes has_nvenc_h264 return true, whether or
\* not it is also a key of COMPAT.
C4_AmbigNotNoneIsTrue ==
    (Resolved /\ self.name \in NVENC.AMBIG
        /\ (self.name \notin NVENC.NONE \/ HasBrand(self.name)))
        => ReturnedValue(TRUE)

C4_Witness ==
    /\ Resolved
    /\ ~HasBrand(self.name)
    /\ self.name \in NVENC.AMBIG
    /\ self.name \notin NVENC.NONE
    /\ self.name \in DOMAIN NVENC.COMPAT
    /\ CoreCounts(self.name) = {0}
    /\ ReturnedValue(TRUE)
    /\ outcome.rule = "ambig"

\* C5: a name that reaches the COMPAT rule makes has_nvenc_h264 return true
\* iff one of its tags has a count > 0, a tag missing from NVENC_CORES_H264
\* counting 0; when all tags have the same nonzero count C the value is true
\* and the maximum logged is C; when the counts include 0 the value is
\* (max > 0), max being the largest count.
C5_CompatCoreCounts ==
    (Resolved /\ ReachesCompat(self.name)) =>
        LET counts == CoreCounts(self.name)
        IN  /\ ReturnedValue(TRUE) <=> (\E c \in counts : c > 0)
            /\ \A c \in counts :
                  (counts = {c} /\ c > 0)
                      => (ReturnedValue(TRUE) /\ outcome.max_cores = c
                          /\ outcome.min_cores = c)
            /\ 0 \in counts =>
                  /\ ~outcome.raised
                  /\ outcome.max_cores \in counts
                  /\ \A c \in counts : c <= outcome.max_cores
                  /\ outcome.value = (outcome.max_cores > 0)
                  /\ outcome.warn_zero

C5_Witness ==
    /\ Resolved
    /\ ReachesCompat(self.name)
    /\ NVENC.COMPAT[self.name] = <<"Unlisted", "Pascal">>
    /\ ReturnedValue(TRUE)
    /\ outcome.min_cores = 0
    /\ outcome.max_cores = 2

-----------------------------------------------------------------------------
(* Properties of number_of_nvenc_gpus and find_command, checked under Spec *)

Running == pc \in {"start", "smi", "list"}
Ended == ~Running

LocatorRan == Len(calls) >= 1
SmiRan == Len(calls) >= 2
ListRan == Len(calls) = 3
Listed == ListRan /\ calls[3].returncode = 0

IsBlankLine(line) == \A i \in 1..Len(line) : line[i] = SP
OutputLines == Split(proc.stdout, NL)
NonBlankOutputLines ==
    {i \in 1..Len(OutputLines) : ~IsBlankLine(OutputLines[i])}

Sentinel == [index |-> -1, name |-> <<"<unknown>">>, uuid |-> "0"]
Capable == {i \in 1..Len(GPUs) : has_nvenc_h264(GPUs[i]).value}

\* C1, as stated: number_of_nvenc_gpus never raises and always returns an
\* integer, whatever the external tools print and whatever the dataset holds.
C1_NeverRaises ==
    Ended => (pc = "done" /\ exception = "" /\ result \in Nat)

\* C6: a parsed major version below 450 makes the call return 0 without ever
\* running nvidia-smi -L; a parsed major version of 450 or above makes it go
\* on to the listing, which runs only then; only the first two components of
\* the version are read.
C6_VersionGate ==
    /\ (major # NoneInt /\ major < 450)
          => (pc = "done" /\ result = 0 /\ ~ListRan)
    /\ (major # NoneInt /\ major >= 450) => (pc = "list" \/ ListRan)
    /\ (pc = "list" \/ ListRan) => (major # NoneInt /\ major >= 450)
    /\ major # NoneInt => (Len(version) = 3 /\ VersionInts(version) = <<major, minor>>)

C6_Witness ==
    /\ version = <<"440", ".", "10">>
    /\ major = 440
    /\ minor = 10
    /\ pc = "done"
    /\ result = 0
    /\ Len(calls) = 2

\* C7, as stated: find_command returns None when the locator exits non-zero
\* and when it exits zero with empty output, never a blank string, and
\* otherwise the first path printed.
C7_AbsentWhenNoMatch ==
    (LocatorRan /\ ~SmiRan) =>
        /\ proc.returncode # 0 => nvidia_smi = None
        /\ (proc.returncode = 0 /\ proc.stdout = <<>>) => nvidia_smi = None
        /\ nvidia_smi # <<>>
        /\ nvidia_smi # None => nvidia_smi = Strip(OutputLines[1])

\* C8: a listing line that NAME_PATTERN rejects, such as one without the
\* "(UUID:" clause, is kept as the sentinel record, which counts among the
\* GPUs present and never among the capable ones.
C8_SentinelCountedNotCapable ==
    (pc = "done" /\ Listed) =>
        /\ Len(GPUs) = Cardinality(NonBlankOutputLines)
        /\ \A i \in 1..Len(GPUs) :
              (\A k \in 1..Len(StrippedLines(proc.stdout)[i]) :
                  StrippedLines(proc.stdout)[i][k] # "(UUID:")
                  => (GPUs[i] = Sentinel /\ i \notin Capable)
        /\ \A i \in 1..Len(GPUs) : GPUs[i].name = <<"<unknown>">> => i \notin Capable
        /\ result <= Cardinality({i \in 1..Len(GPUs) : GPUs[i] # Sentinel})

C8_Witness ==
    /\ pc = "done"
    /\ Listed
    /\ Len(GPUs) = 2
    /\ GPUs[1] = Sentinel
    /\ GPUs[2].name = <<"Quadro", "K420">>
    /\ result = 1

\* C9: the value returned is the number of parsed records, one per non-blank
\* listing line, for which has_nvenc_h264 is true, so it lies between 0 and
\* the number of non-blank lines; it is 0 when the tool is absent, when
\* either nvidia-smi run exits non-zero, when no version line is found and
\* when the driver is too old.
C9_ResultIsCapableCount ==
    pc = "done" =>
        /\ result = (IF Listed THEN Cardinality(Capable) ELSE 0)
        /\ Listed => (/\ Len(GPUs) = Cardinality(NonBlankOutputLines)
                      /\ 0 <= result
                      /\ result <= Cardinality(NonBlankOutputLines))
        /\ (\/ nvidia_smi = None
            \/ proc.returncode # 0
            \/ (SmiRan /\ version = None)
            \/ (major # NoneInt /\ major < 450)) => result = 0

C9_Witness ==
    /\ pc = "done"
    /\ Listed
    /\ Len(GPUs) = 2
    /\ GPUs[1].name = <<"GeForce", "GTX">>
    /\ GPUs[2].name = <<"GeForce", "MX150">>
    /\ GPUs[2].name \in NVENC.NONE
    /\ result = 1

\* The order of the subprocess runs: where, nvidia-smi, nvidia-smi -L, each at
\* most once, a later one only after the earlier one exited 0 (and, for the
\* listing, after a version with major >= 450 was read), none after a failure.
InvocationOrder ==
    /\ Len(calls) <= 3
    /\ LocatorRan => calls[1].args = <<<<"where">>, <<"nvidia-smi">>>>
    /\ SmiRan => (nvidia_smi # None /\ calls[2].args = <<nvidia_smi>>)
    /\ ListRan => (/\ calls[3].args = <<nvidia_smi, <<"-L">>>>
                   /\ major # NoneInt /\ major >= 450)
    /\ \A i \in 1..Len(calls) :
          calls[i].returncode # 0 => (i = Len(calls) /\ pc = "done" /\ result = 0)
    /\ pc = "start" <=> calls = <<>>

\* C10, as stated: the runs happen in that order, at most once each, with no
\* retry, and the call ends with a result once every process it ran has
\* returned.
C10_OrderedRunsThenResult ==
    /\ InvocationOrder
    /\ (LocatorRan /\ pc \notin {"smi", "list"}) => (pc = "done" /\ result \in Nat)

====
